---- MODULE Spec2Model ----
(***************************************************************************)
(* CurrencyInput (src/src/Components/CurrencyInput.tsx): the currency      *)
(* formatter / parser pair and the keystroke handler with its deferred     *)
(* caret restoration.                                                      *)
(*                                                                         *)
(* Strings are sequences of one-character strings.  A JavaScript number is *)
(* a record [nan, neg, int, frac] of decimal digits: int the digits of the *)
(* integer part without leading zeros (<<0>> for zero), frac the digits of *)
(* the fraction without trailing zeros, so 1532.31 is                      *)
(* [nan |-> FALSE, neg |-> FALSE, int |-> <<1,5,3,2>>, frac |-> <<3,1>>].  *)
(* Within the bounds below every number has fewer than 16 significant      *)
(* digits and is zero or in [1e-6, 1e21), so Number::toString prints just  *)
(* these digits and parseFloat reads them back; the one place where the    *)
(* binary value of the double matters, the direction toFixed rounds a      *)
(* decimal tie, is computed from the double (DoubleNotBelow).              *)
(***************************************************************************)
EXTENDS Integers, Sequences, FiniteSets, TLC

VARIABLES
    cfg,            \* props: decimalLength, decimalSeparator, thousandSeparator
    fieldValue,     \* field.value, the number held by the form state
    display,        \* the input's rendered value attribute
    inputRef,       \* inputRef.current # null
    selectionStart, \* caret of the input element
    selectionEnd,
    rafQueue,       \* cursorPosition captured by each pending frame callback
    keys,           \* keystrokes handled so far
    lastCursor,     \* cursorPosition captured by the latest keystroke
    lastInput,      \* userInput of the latest keystroke
    nullDeref,      \* a frame callback assigned through a null inputRef.current
    input,          \* formatter run: the argument of formatCurrency
    stage,          \* formatter run: "in", "formatted", "parsed", "done"
    formatted,      \* formatter run: formatCurrency(input)
    parsed,         \* formatter run: parseCurrency(formatted)
    number,         \* formatter run: parseFloat(parsed)
    reformatted     \* formatter run: formatCurrency(parsed)

vars == <<cfg, fieldValue, display, inputRef, selectionStart, selectionEnd,
          rafQueue, keys, lastCursor, lastInput, nullDeref,
          input, stage, formatted, parsed, number, reformatted>>

compVars == <<fieldValue, display, inputRef, selectionStart, selectionEnd,
              rafQueue, keys, lastCursor, lastInput, nullDeref>>

fmtVars == <<input, stage, formatted, parsed, number, reformatted>>

----------------------------------------------------------------------------
(* Bounds *)

MaxDecimalLength == 2
MaxLen == 4
MaxFrac == 3
MaxRaw == 2
MaxKeys == 2

----------------------------------------------------------------------------
(* Characters and numbers *)

DigitChars == <<"0", "1", "2", "3", "4", "5", "6", "7", "8", "9">>

Digits == {DigitChars[i] : i \in 1..10}

Chr(d) == DigitChars[d + 1]

Val(c) == CHOOSE d \in 0..9 : DigitChars[d + 1] = c

Separators == {".", ","}

RECURSIVE Pow10(_)
Pow10(n) == IF n = 0 THEN 1 ELSE 10 * Pow10(n - 1)

Num(neg, int, frac) == [nan |-> FALSE, neg |-> neg, int |-> int, frac |-> frac]

NaN == [nan |-> TRUE, neg |-> FALSE, int |-> <<0>>, frac |-> <<>>]

IsZero(x) == x.int = <<0>> /\ x.frac = <<>>

isNaN(x) == x.nan

RECURSIVE StripZeros(_)
StripZeros(f) ==
    IF f # <<>> /\ f[Len(f)] = 0 THEN StripZeros(SubSeq(f, 1, Len(f) - 1)) ELSE f

RECURSIVE StripLeadingZeros(_)
StripLeadingZeros(ds) ==
    IF Len(ds) > 1 /\ ds[1] = 0 THEN StripLeadingZeros(Tail(ds))
    ELSE IF ds = <<>> THEN <<0>> ELSE ds

\* ds + 1, on decimal digits.
RECURSIVE IncDigits(_)
IncDigits(ds) ==
    IF ds = <<>> THEN <<1>>
    ELSE IF ds[Len(ds)] < 9
         THEN SubSeq(ds, 1, Len(ds) - 1) \o <<ds[Len(ds)] + 1>>
         ELSE IncDigits(SubSeq(ds, 1, Len(ds) - 1)) \o <<0>>

\* ds \div 2, on decimal digits, given the remainder carried in.
RECURSIVE HalveFrom(_, _)
HalveFrom(ds, rem) ==
    IF ds = <<>> THEN <<>>
    ELSE <<(10 * rem + ds[1]) \div 2>> \o HalveFrom(Tail(ds), (10 * rem + ds[1]) % 2)

HalveDigits(ds) == StripLeadingZeros(HalveFrom(ds, 0))

RECURSIVE NatToStr(_)
NatToStr(n) ==
    IF n < 10 THEN <<Chr(n)>> ELSE NatToStr(n \div 10) \o <<Chr(n % 10)>>

RECURSIVE StrToNat(_)
StrToNat(s) ==
    IF s = <<>> THEN 0
    ELSE 10 * StrToNat(SubSeq(s, 1, Len(s) - 1)) + Val(s[Len(s)])

DigitsToStr(f) == [i \in 1..Len(f) |-> Chr(f[i])]

StrToDigits(s) == [i \in 1..Len(s) |-> Val(s[i])]

\* The number of consecutive digit characters of s from index i on.
RECURSIVE DigitRun(_, _)
DigitRun(s, i) ==
    IF i <= Len(s) /\ s[i] \in Digits THEN 1 + DigitRun(s, i + 1) ELSE 0

\* Number.prototype.toString(), String(number): decimal notation.
NumberToString(x) ==
    IF x.nan THEN <<"N", "a", "N">>
    ELSE (IF x.neg /\ ~IsZero(x) THEN <<"-">> ELSE <<>>)
         \o DigitsToStr(x.int)
         \o (IF x.frac = <<>> THEN <<>> ELSE <<".">> \o DigitsToStr(x.frac))

\* parseFloat: an optional sign, then the longest prefix digits[.digits] or
\* .digits; NaN when there is none.  (No character of the model's alphabets
\* starts an exponent and none is white space.)
parseFloat(s) ==
    LET signed == s # <<>> /\ s[1] \in {"-", "+"}
        b      == IF signed THEN 2 ELSE 1
        n1     == DigitRun(s, b)
        dot    == b + n1 <= Len(s) /\ s[b + n1] = "."
        n2     == IF dot THEN DigitRun(s, b + n1 + 1) ELSE 0
    IN  IF n1 = 0 /\ n2 = 0 THEN NaN
        ELSE Num(signed /\ s[1] = "-",
                 StripLeadingZeros(StrToDigits(SubSeq(s, b, b + n1 - 1))),
                 StripZeros(StrToDigits(SubSeq(s, b + n1 + 1, b + n1 + n2))))

----------------------------------------------------------------------------
(* Number.prototype.toFixed *)

\* The e with 2^e <= ds < 2^(e+1), for decimal digits ds of an integer >= 1.
RECURSIVE Log2Floor(_)
Log2Floor(ds) == IF ds = <<1>> THEN 0 ELSE 1 + Log2Floor(HalveDigits(ds))

\* The least m with f * 2^m >= p, for 0 < f < p.
RECURSIVE ShiftUp(_, _)
ShiftUp(f, p) == IF f >= p THEN 0 ELSE 1 + ShiftUp(2 * f, p)

RECURSIVE Pow2Mod(_, _)
Pow2Mod(s, p) == IF s = 0 THEN 1 % p ELSE (2 * Pow2Mod(s - 1, p)) % p

\* Whether the double nearest to int + f / 10^k (0 <= f < 10^k, value > 0) is
\* not below that decimal: with 2^52 <= value * 2^s < 2^53, the double is the
\* decimal itself when 10^k divides f * 2^s, and lies above it when the
\* remainder exceeds half of 10^k.
DoubleNotBelow(int, f, k) ==
    LET p == Pow10(k)
        s == IF int # <<0>> THEN 52 - Log2Floor(int) ELSE 52 + ShiftUp(f, p)
        r == (f * Pow2Mod(s, p)) % p
    IN  r = 0 \/ 2 * r > p

\* x.toFixed(d) for a finite x below 1e21: n / 10^d with n the integer nearest
\* to x * 10^d, the larger n on a tie of the double x.
toFixed(x, d) ==
    IF x.nan THEN <<"N", "a", "N">>
    ELSE
    LET padded == x.frac \o [i \in 1..d |-> 0]
        kept   == SubSeq(padded, 1, d)
        rest   == SubSeq(x.frac, d + 1, Len(x.frac))
        up     == /\ rest # <<>>
                  /\ \/ rest[1] > 5
                     \/ rest[1] = 5 /\ Len(rest) > 1
                     \/ /\ rest = <<5>>
                        /\ DoubleNotBelow(x.int, StrToNat(DigitsToStr(kept)) * 10 + 5, d + 1)
        f0     == StrToNat(DigitsToStr(kept))
        carry  == up /\ f0 + 1 = Pow10(d)
        int    == IF carry THEN IncDigits(x.int) ELSE x.int
        f1     == IF carry THEN 0 ELSE IF up THEN f0 + 1 ELSE f0
        fs     == NatToStr(f1)
        fstr   == [i \in 1..(d - Len(fs)) |-> "0"] \o fs
    IN  (IF x.neg /\ ~IsZero(x) THEN <<"-">> ELSE <<>>)
        \o DigitsToStr(int)
        \o (IF d = 0 THEN <<>> ELSE <<".">> \o fstr)

----------------------------------------------------------------------------
(* formatCurrency and parseCurrency *)

\* A value passed to formatCurrency: a string or a number.
Str(s) == [num |-> FALSE, s |-> s, n |-> NaN]

NumV(n) == [num |-> TRUE, s |-> <<>>, n |-> n]

RECURSIVE Filter(_, _)
Filter(s, keep) ==
    IF s = <<>> THEN <<>>
    ELSE (IF s[1] \in keep THEN <<s[1]>> ELSE <<>>) \o Filter(Tail(s), keep)

\* s.replace(new RegExp("\\" + c, "g"), by), by the empty or a one-character string.
RECURSIVE ReplaceAll(_, _, _)
ReplaceAll(s, c, by) ==
    IF s = <<>> THEN <<>>
    ELSE (IF s[1] = c THEN by ELSE <<s[1]>>) \o ReplaceAll(Tail(s), c, by)

\* `0${decimalSeparator}${"0".repeat(decimalLength)}`
zeroSentinel(c) ==
    <<"0", c.decimalSeparator>> \o [i \in 1..c.decimalLength |-> "0"]

\* value.replace(/[^0-9\<decimalSeparator>]/g, "")
numericValueOf(value, c) == Filter(value, Digits \cup {c.decimalSeparator})

\* s.split(".")[i], <<>> standing for undefined as well as for "" (both falsy).
SplitPart(s, i) ==
    LET dots  == {j \in 1..Len(s) : s[j] = "."}
        dotAt(k) == CHOOSE j \in dots : Cardinality({h \in dots : h < j}) = k - 1
        from  == IF i = 0 THEN 1 ELSE dotAt(i) + 1
        to    == IF Cardinality(dots) > i THEN dotAt(i + 1) - 1 ELSE Len(s)
    IN  IF i > Cardinality(dots) THEN <<>> ELSE SubSeq(s, from, to)

WordChars == Digits \cup {"a", "e", "N", "I"}

\* integerPart.replace(/\B(?=(\d{3})+(?!\d))/g, thousandSeparator): a separator
\* goes before s[i] when s[i-1] and s[i] are word characters and the run of
\* digits starting at s[i] has a positive length divisible by three.
RECURSIVE Group(_, _, _)
Group(s, i, sep) ==
    IF i > Len(s) THEN <<>>
    ELSE (IF /\ i > 1
             /\ s[i - 1] \in WordChars
             /\ s[i] \in WordChars
             /\ DigitRun(s, i) > 0
             /\ DigitRun(s, i) % 3 = 0
          THEN <<sep>> ELSE <<>>)
         \o <<s[i]>> \o Group(s, i + 1, sep)

\* formatCurrency with the numericValue filter also keeping a minus sign.
formatCurrencyKeepsSign(v, c) ==
    LET value == IF v.num THEN NumberToString(v.n) ELSE v.s
        numericValue == Filter(value, Digits \cup {c.decimalSeparator, "-"})
        normalizedValue == ReplaceAll(numericValue, c.decimalSeparator, <<".">>)
        numberValue == parseFloat(normalizedValue)
        fixedValue == toFixed(numberValue, c.decimalLength)
        integerPart == SplitPart(fixedValue, 0)
        decimalPart == IF SplitPart(fixedValue, 1) # <<>>
                       THEN <<c.decimalSeparator>> \o SplitPart(fixedValue, 1)
                       ELSE <<>>
    IN  IF value = <<>> THEN zeroSentinel(c)
        ELSE IF numericValue = <<>> THEN zeroSentinel(c)
        ELSE IF isNaN(numberValue) THEN zeroSentinel(c)
        ELSE Group(integerPart, 1, c.thousandSeparator) \o decimalPart

\* formatCurrency without the isNaN(numberValue) return.
formatCurrencyNoNaNCheck(v, c) ==
    LET value == IF v.num THEN NumberToString(v.n) ELSE v.s
        numericValue == numericValueOf(value, c)
        normalizedValue == ReplaceAll(numericValue, c.decimalSeparator, <<".">>)
        numberValue == parseFloat(normalizedValue)
        fixedValue == toFixed(numberValue, c.decimalLength)
        integerPart == SplitPart(fixedValue, 0)
        decimalPart == IF SplitPart(fixedValue, 1) # <<>>
                       THEN <<c.decimalSeparator>> \o SplitPart(fixedValue, 1)
                       ELSE <<>>
    IN  IF value = <<>> THEN zeroSentinel(c)
        ELSE IF numericValue = <<>> THEN zeroSentinel(c)
        ELSE Group(integerPart, 1, c.thousandSeparator) \o decimalPart

formatCurrency(v, c) ==
    LET value == IF v.num THEN NumberToString(v.n) ELSE v.s
        numericValue == numericValueOf(value, c)
        normalizedValue == ReplaceAll(numericValue, c.decimalSeparator, <<".">>)
        numberValue == parseFloat(normalizedValue)
        fixedValue == toFixed(numberValue, c.decimalLength)
        integerPart == SplitPart(fixedValue, 0)
        decimalPart == IF SplitPart(fixedValue, 1) # <<>>
                       THEN <<c.decimalSeparator>> \o SplitPart(fixedValue, 1)
                       ELSE <<>>
    IN  IF value = <<>> THEN zeroSentinel(c)
        ELSE IF numericValue = <<>> THEN zeroSentinel(c)
        ELSE IF isNaN(numberValue) THEN zeroSentinel(c)
        ELSE Group(integerPart, 1, c.thousandSeparator) \o decimalPart

parseCurrency(value, c) ==
    ReplaceAll(ReplaceAll(value, c.thousandSeparator, <<>>),
               c.decimalSeparator, <<".">>)

----------------------------------------------------------------------------
(* Inputs *)

\* CurrencyInputProps: decimalLength, decimalSeparator, thousandSeparator.
Configs ==
    [decimalLength : 0..MaxDecimalLength,
     decimalSeparator : Separators,
     thousandSeparator : Separators]

Distinct(c) == c.decimalSeparator # c.thousandSeparator

SeqsUpTo(S, n) == UNION {[1..k -> S] : k \in 0..n}

\* Strings handed to formatCurrency.
Chars == {"0", "1", "5", ".", ",", "-", "a"}

StringInputs == SeqsUpTo(Chars, MaxLen)

\* Numbers handed to formatCurrency.
IntParts == {0, 1, 15, 999, 1000, 1532, 999999, 1234567}

NatToDigits(n) == StrToDigits(NatToStr(n))

FracParts ==
    {f \in SeqsUpTo({0, 1, 3, 5}, MaxFrac) : f = <<>> \/ f[Len(f)] # 0}

NumberInputs == {Num(neg, NatToDigits(i), f) : neg \in BOOLEAN, i \in IntParts, f \in FracParts}

\* The raw buffers of keystroke events (e.target.value).
RawChars == {"1", ",", "-", "a"}

RawInputs == SeqsUpTo(RawChars, MaxRaw)

\* initialValue: the default 0 and the example form's price (App.tsx).
InitialValues == {Num(FALSE, <<0>>, <<>>), Num(FALSE, <<1, 5, 3, 2>>, <<3, 1>>)}

\* The configurations the component is mounted with.
MountConfigs == {c \in Configs : c.decimalLength \in {0, MaxDecimalLength}}

----------------------------------------------------------------------------
(* The component *)

\* value={formatCurrency(String(field.value))}
Render(v, c) == formatCurrency(Str(NumberToString(v)), c)

IdleFmt ==
    /\ input = Str(<<>>)
    /\ stage = "idle"
    /\ formatted = <<>>
    /\ parsed = <<>>
    /\ number = NaN
    /\ reformatted = <<>>

Mounted(c, v) ==
    /\ cfg = c
    /\ fieldValue = v
    /\ display = Render(v, c)
    /\ inputRef = TRUE
    /\ selectionStart = Len(Render(v, c))
    /\ selectionEnd = Len(Render(v, c))
    /\ rafQueue = <<>>
    /\ keys = 0
    /\ lastCursor = 0
    /\ lastInput = <<>>
    /\ nullDeref = FALSE

Init ==
    /\ \E c \in MountConfigs, v \in InitialValues : Mounted(c, v)
    /\ IdleFmt

\* handleReactHookFormChange with the caret assigned inside the handler
\* instead of in a frame callback.
KeystrokeSync(userInput, cursorPosition) ==
    LET formattedValue == formatCurrency(Str(userInput), cfg)
        parsedValue == parseCurrency(formattedValue, cfg)
    IN  /\ inputRef
        /\ keys < MaxKeys
        /\ fieldValue' = parseFloat(parsedValue)
        /\ display' = Render(fieldValue', cfg)
        /\ selectionStart' = cursorPosition
        /\ selectionEnd' = cursorPosition
        /\ keys' = keys + 1
        /\ lastCursor' = cursorPosition
        /\ lastInput' = userInput
        /\ UNCHANGED <<cfg, inputRef, rafQueue, nullDeref>>
        /\ UNCHANGED fmtVars

\* A change event on the mounted input: handleReactHookFormChange, then the
\* re-render with the new field.value.  The input holds userInput with the
\* caret at cursorPosition; when the rendered text differs, replacing the
\* input's text moves the caret to its end.
Keystroke(userInput, cursorPosition) ==
    LET formattedValue == formatCurrency(Str(userInput), cfg)
        parsedValue == parseCurrency(formattedValue, cfg)
    IN  /\ inputRef
        /\ keys < MaxKeys
        /\ fieldValue' = parseFloat(parsedValue)
        /\ rafQueue' = IF inputRef THEN Append(rafQueue, cursorPosition)
                       ELSE rafQueue
        /\ display' = Render(fieldValue', cfg)
        /\ selectionStart' = IF display' = userInput THEN cursorPosition
                              ELSE Len(display')
        /\ selectionEnd' = selectionStart'
        /\ keys' = keys + 1
        /\ lastCursor' = cursorPosition
        /\ lastInput' = userInput
        /\ UNCHANGED <<cfg, inputRef, nullDeref>>
        /\ UNCHANGED fmtVars

\* The browser runs the oldest pending frame callback:
\*   inputRef.current!.selectionStart = cursorPosition;
\*   inputRef.current!.selectionEnd = cursorPosition;
\* With inputRef.current null the first assignment throws a TypeError.  The
\* input element keeps an assigned offset within its text: both assignments
\* together leave the caret at the offset, or at the end of the text when
\* the offset lies beyond it.
Clamp(offset, text) == IF offset > Len(text) THEN Len(text) ELSE offset

Frame ==
    /\ rafQueue # <<>>
    /\ rafQueue' = Tail(rafQueue)
    /\ IF inputRef
       THEN /\ selectionStart' = Clamp(Head(rafQueue), display)
            /\ selectionEnd' = Clamp(Head(rafQueue), display)
            /\ UNCHANGED nullDeref
       ELSE /\ nullDeref' = TRUE
            /\ UNCHANGED <<selectionStart, selectionEnd>>
    /\ UNCHANGED <<cfg, fieldValue, display, inputRef, keys, lastCursor, lastInput>>
    /\ UNCHANGED fmtVars

\* The component unmounts: React sets inputRef.current to null.
Unmount ==
    /\ inputRef
    /\ inputRef' = FALSE
    /\ UNCHANGED <<cfg, fieldValue, display, selectionStart, selectionEnd,
                   rafQueue, keys, lastCursor, lastInput, nullDeref>>
    /\ UNCHANGED fmtVars

Next ==
    \/ \E userInput \in RawInputs :
         \E cursorPosition \in {0, Len(userInput)} :
           Keystroke(userInput, cursorPosition)
    \/ Frame
    \/ Unmount

Spec == Init /\ [][Next]_vars

----------------------------------------------------------------------------
(* Runs of the formatter and the parser on one input *)

FmtInit ==
    /\ \E c \in Configs : Mounted(c, Num(FALSE, <<0>>, <<>>))
    /\ input \in {Str(s) : s \in StringInputs} \cup {NumV(n) : n \in NumberInputs}
    /\ stage = "in"
    /\ formatted = <<>>
    /\ parsed = <<>>
    /\ number = NaN
    /\ reformatted = <<>>

Format ==
    /\ stage = "in"
    /\ formatted' = formatCurrency(input, cfg)
    /\ stage' = "formatted"
    /\ UNCHANGED <<cfg, input, parsed, number, reformatted>>
    /\ UNCHANGED compVars

Parse ==
    /\ stage = "formatted"
    /\ parsed' = parseCurrency(formatted, cfg)
    /\ number' = parseFloat(parsed')
    /\ stage' = "parsed"
    /\ UNCHANGED <<cfg, input, formatted, reformatted>>
    /\ UNCHANGED compVars

Reformat ==
    /\ stage = "parsed"
    /\ reformatted' = formatCurrency(Str(parsed), cfg)
    /\ stage' = "done"
    /\ UNCHANGED <<cfg, input, formatted, parsed, number>>
    /\ UNCHANGED compVars

FmtNext == Format \/ Parse \/ Reformat

FmtSpec == FmtInit /\ [][FmtNext]_vars

----------------------------------------------------------------------------
(* Reference definitions used by the properties *)

\* ds grouped from the right in runs of three.
RECURSIVE GroupRef(_, _)
GroupRef(s, sep) ==
    IF Len(s) <= 3 THEN s
    ELSE GroupRef(SubSeq(s, 1, Len(s) - 3), sep) \o <<sep>>
         \o SubSeq(s, Len(s) - 2, Len(s))

\* x rounded to d fractional digits, as <<integer digits, d fraction digits>>;
\* both neighbours when x lies exactly half way between them.
Rounded(x, d) ==
    LET padded == x.frac \o [i \in 1..d |-> 0]
        kept   == SubSeq(padded, 1, d)
        rest   == SubSeq(x.frac, d + 1, Len(x.frac))
        all    == x.int \o kept
        inc    == IncDigits(all)
        down   == <<x.int, kept>>
        up     == <<SubSeq(inc, 1, Len(inc) - d), SubSeq(inc, Len(inc) - d + 1, Len(inc))>>
    IN  IF rest = <<>> \/ rest[1] < 5 THEN {down}
        ELSE IF rest = <<5>> THEN {down, up}
        ELSE {up}

RefDisplay(r, c) ==
    GroupRef(DigitsToStr(r[1]), c.thousandSeparator)
    \o (IF c.decimalLength = 0 THEN <<>>
        ELSE <<c.decimalSeparator>> \o DigitsToStr(r[2]))

RefNumber(r) == Num(FALSE, r[1], StripZeros(r[2]))

\* The DisplayString pattern under configuration c.
IsDisplayString(s, c) ==
    LET d     == c.decimalLength
        fracL == IF d = 0 THEN 0 ELSE d + 1
        n     == Len(s) - fracL
    IN  /\ n >= 1
        /\ s[1] \in Digits
        /\ \A i \in 1..n :
             IF (n - i) % 4 = 3 THEN s[i] = c.thousandSeparator
             ELSE s[i] \in Digits
        /\ d > 0 => /\ s[n + 1] = c.decimalSeparator
                    /\ \A i \in (n + 2)..Len(s) : s[i] \in Digits

SepPositions(s, c) == {i \in 1..Len(s) : s[i] = c.decimalSeparator}

\* s cut just before its second decimal separator.
BeforeSecondSep(s, c) ==
    LET ps     == SepPositions(s, c)
        first  == CHOOSE i \in ps : \A j \in ps : i <= j
        second == CHOOSE i \in ps \ {first} : \A j \in ps \ {first} : i <= j
    IN  SubSeq(s, 1, second - 1)

Done(st) == st \in {"formatted", "parsed", "done"}

----------------------------------------------------------------------------
(* Properties *)

\* C1: in every state reached by keystrokes, under distinct separators, the
\* displayed text is formatCurrency(String(field.value)) and field.value is
\* parseFloat(parseCurrency(displayed text)).
C1_DisplayAndValueAgree ==
    Distinct(cfg) =>
        /\ display = formatCurrency(Str(NumberToString(fieldValue)), cfg)
        /\ fieldValue = parseFloat(parseCurrency(display, cfg))

\* C2: for a non-negative number v and distinct separators, formatCurrency(v)
\* is v rounded to decimalLength digits, grouped by thousandSeparator, with the
\* fraction after decimalSeparator; 1000.5 gives "1,000.50" under {2, '.', ','}
\* and 1532.31 gives "1.532,31" under {2, ',', '.'}.
C2_FormatsNumber ==
    (Done(stage) /\ input.num /\ ~input.n.neg /\ Distinct(cfg)) =>
        /\ \E r \in Rounded(input.n, cfg.decimalLength) : formatted = RefDisplay(r, cfg)
        /\ ( /\ input.n = Num(FALSE, <<1, 0, 0, 0>>, <<5>>)
             /\ cfg = [decimalLength |-> 2, decimalSeparator |-> ".",
                       thousandSeparator |-> ","] )
           => formatted = <<"1", ",", "0", "0", "0", ".", "5", "0">>
        /\ ( /\ input.n = Num(FALSE, <<1, 5, 3, 2>>, <<3, 1>>)
             /\ cfg = [decimalLength |-> 2, decimalSeparator |-> ",",
                       thousandSeparator |-> "."] )
           => formatted = <<"1", ".", "5", "3", "2", ",", "3", "1">>

\* C3: for a non-negative number v and distinct separators,
\* parseFloat(parseCurrency(formatCurrency(v))) is v rounded to decimalLength
\* fractional digits.
C3_ParseInvertsFormat ==
    (stage \in {"parsed", "done"} /\ input.num /\ ~input.n.neg /\ Distinct(cfg)) =>
        \E r \in Rounded(input.n, cfg.decimalLength) : number = RefNumber(r)

\* C4: for every input and configuration,
\* formatCurrency(parseCurrency(formatCurrency(v))) = formatCurrency(v).
C4_RoundTripIdempotent ==
    stage = "done" => reformatted = formatted

\* C5: under distinct separators every result of formatCurrency, the zero
\* sentinel included, matches the DisplayString pattern: digits grouped by
\* three, then decimalSeparator and exactly decimalLength digits, or nothing
\* at all when decimalLength is 0.
C5_ResultIsDisplayString ==
    (Done(stage) /\ Distinct(cfg)) => IsDisplayString(formatted, cfg)

\* C6: formatCurrency returns "0" + decimalSeparator + decimalLength zeros,
\* under every configuration, when the input string is empty, holds no digit
\* and no decimal separator, or is unparsable once filtered (its first kept
\* character is a decimal separator not followed by a digit).
C6_Degenerate ==
    /\ ~input.num
    /\ LET kept == Filter(input.s, Digits \cup {cfg.decimalSeparator})
       IN  \/ input.s = <<>>
           \/ kept = <<>>
           \/ /\ kept[1] = cfg.decimalSeparator
              /\ Len(kept) = 1 \/ kept[2] = cfg.decimalSeparator

C6_ZeroSentinel ==
    (Done(stage) /\ C6_Degenerate) =>
        formatted = <<"0", cfg.decimalSeparator>> \o [i \in 1..cfg.decimalLength |-> "0"]

C6_Witness ==
    /\ stage = "formatted"
    /\ C6_Degenerate
    /\ \E i \in 1..Len(input.s) : input.s[i] \in Digits
    /\ cfg.decimalLength = 2
    /\ formatted = <<"0", cfg.decimalSeparator, "0", "0">>

\* C7 as stated: a keystroke pushes parseFloat(parseCurrency(formatCurrency(raw)))
\* into the form state and schedules exactly one frame callback carrying the
\* caret offset it captured; a pending callback is only ever removed by running
\* it, oldest first, and it sets selectionStart and selectionEnd to its
\* captured offset; once no callback is pending the caret is the offset
\* captured by the latest keystroke.
C7_Pushed ==
    keys > 0 =>
        fieldValue = parseFloat(parseCurrency(formatCurrency(Str(lastInput), cfg), cfg))

C7_StepToOffset ==
    /\ keys' = keys + 1 => rafQueue' = Append(rafQueue, lastCursor')
    /\ keys' = keys =>
         \/ rafQueue' = rafQueue /\ selectionStart' = selectionStart
                                 /\ selectionEnd' = selectionEnd
         \/ /\ rafQueue # <<>>
            /\ rafQueue' = Tail(rafQueue)
            /\ inputRef => /\ selectionStart' = Head(rafQueue)
                           /\ selectionEnd' = Head(rafQueue)

C7_SettledAtOffset ==
    (inputRef /\ keys > 0 /\ rafQueue = <<>>) =>
        /\ selectionStart = lastCursor
        /\ selectionEnd = lastCursor

C7_CaretIsCapturedOffset ==
    [][C7_StepToOffset]_vars /\ [](C7_Pushed /\ C7_SettledAtOffset)

\* C7, amended: as above, except that the caret a callback leaves on the
\* mounted input, and hence the settled caret, is the captured offset or the
\* length of the displayed text, whichever is smaller.
C7_Step ==
    /\ keys' = keys + 1 => rafQueue' = Append(rafQueue, lastCursor')
    /\ keys' = keys =>
         \/ rafQueue' = rafQueue /\ selectionStart' = selectionStart
                                 /\ selectionEnd' = selectionEnd
         \/ /\ rafQueue # <<>>
            /\ rafQueue' = Tail(rafQueue)
            /\ inputRef =>
                 /\ selectionStart' = selectionEnd'
                 /\ \/ selectionStart' = Head(rafQueue)
                       /\ Head(rafQueue) <= Len(display)
                    \/ selectionStart' = Len(display)
                       /\ Head(rafQueue) > Len(display)

C7_Settled ==
    (inputRef /\ keys > 0 /\ rafQueue = <<>>) =>
        /\ selectionStart = selectionEnd
        /\ lastCursor <= Len(display) => selectionStart = lastCursor
        /\ lastCursor > Len(display) => selectionStart = Len(display)

C7_CaretRestore == [][C7_Step]_vars /\ [](C7_Pushed /\ C7_Settled)

C7_Witness ==
    /\ inputRef
    /\ keys >= 2
    /\ rafQueue = <<>>
    /\ selectionStart = lastCursor
    /\ selectionStart # Len(display)

\* C8: with more than one decimal separator in the raw input only the first
\* counts: the result is formatCurrency of the input cut before the second
\* decimal separator, and it is a DisplayString.
C8_FirstSeparatorOnly ==
    ( /\ Done(stage) /\ ~input.num /\ Distinct(cfg)
      /\ Cardinality(SepPositions(input.s, cfg)) > 1 ) =>
        /\ formatted = formatCurrency(Str(BeforeSecondSep(input.s, cfg)), cfg)
        /\ IsDisplayString(formatted, cfg)

\* C9: under every configuration, equal separators included, the value a
\* keystroke pushes into the form state is never NaN, never negative and has
\* at most decimalLength fractional digits.
C9_PushedValueSafe ==
    keys > 0 =>
        /\ ~isNaN(fieldValue)
        /\ ~fieldValue.neg
        /\ Len(fieldValue.frac) <= cfg.decimalLength

C9_Witness ==
    /\ keys > 0
    /\ ~Distinct(cfg)
    /\ \E i \in 1..Len(lastInput) : lastInput[i] \in {"-", "a"}
    /\ ~IsZero(fieldValue)
    /\ ~isNaN(fieldValue)

\* C10: a frame callback never assigns through a null inputRef.current.
C10_NoNullDeref == ~nullDeref

====
